---- MODULE Spec2Model ----
(***************************************************************************)
(* TQL (matsjoyce/tql): the validator and the matcher of tql/ast.py, as a  *)
(* state machine.  An expression is an AST as tql/parser.py builds it; a   *)
(* document is a bs4 tag tree; compile validates the AST, start_match      *)
(* enumerates Document.full_match and deduplicates the outer groups.       *)
(***************************************************************************)
EXTENDS Integers, Sequences, FiniteSets, TLC

(***************************************************************************)
(* Bounds of the model.                                                    *)
(***************************************************************************)
\* the largest generated document has MaxTags tags below the document root
MaxTags == 3
\* pops of the RepOp worklist after which an enumeration is cut off
MaxPops == 40
\* the deepest nesting of operators around the core of a generated expression
MaxWrap == 2
\* the longest literal made of every combination of the short alphabet
MaxLen == 4

(***************************************************************************)
(* Python values that filters compute: str (a sequence of characters),     *)
(* int, bool, list (of str) and bs4.Tag.                                    *)
(***************************************************************************)
VStr(s) == [t |-> "str", s |-> s]
VInt(i) == [t |-> "int", i |-> i]
VBool(b) == [t |-> "bool", b |-> b]
VList(l) == [t |-> "list", items |-> l]
VTag(n) == [t |-> "tag", node |-> n]
\* a missing attribute (tag.get falls back to its default)
Absent == [t |-> "absent"]

(***************************************************************************)
(* The tag tree (bs4).  Tags are numbered in document order; tag 1 is the  *)
(* bs4.BeautifulSoup object, which is itself a bs4.Tag named "[document]"  *)
(* and has no parent.  Text nodes are not tags: every loop of ast.py over  *)
(* children, descendants and siblings skips them (isinstance(n, bs4.Tag)), *)
(* so a tag keeps only its own text, placed before its child tags.         *)
(***************************************************************************)
\* Python's None, as Optional[bs4.Tag]
None == 0
\* the bs4.BeautifulSoup object of a document
DocRoot == 1

AttrNames == {"class", "id", "x"}
NoAttrs == [a \in AttrNames |-> Absent]

RootTag == [name |-> "[document]", attrs |-> NoAttrs, own |-> <<>>]
\* the tags that generated documents are made of
TagKinds ==
    << [name |-> "a", attrs |-> NoAttrs, own |-> <<>>],
       [name |-> "b", attrs |-> NoAttrs, own |-> <<>>],
       [name |-> "a",
        attrs |-> [NoAttrs EXCEPT !["class"] = VList(<< <<"k">> >>),
                                  !["id"] = VStr(<<"i">>),
                                  !["x"] = VStr(<<"1">>)],
        own |-> <<"1", "0">>] >>

Tags(d) == 1..Len(d.parent)
Parent(d, t) == d.parent[t]
Name(d, t) == d.tag[t].name

RECURSIVE IsDescendant(_, _, _)
\* x lies strictly below t
IsDescendant(d, x, t) ==
    /\ x # None
    /\ Parent(d, x) # None
    /\ (Parent(d, x) = t \/ IsDescendant(d, Parent(d, x), t))

Ids(d) == [i \in 1..Len(d.parent) |-> i]
\* for n in tag.children: if isinstance(n, bs4.Tag)
Children(d, t) == SelectSeq(Ids(d), LAMBDA c : Parent(d, c) = t)
\* for n in tag.descendants: if isinstance(n, bs4.Tag)         (document order)
Descendants(d, t) == SelectSeq(Ids(d), LAMBDA c : IsDescendant(d, c, t))
\* for n in tag.next_siblings: if isinstance(n, bs4.Tag)
NextSiblings(d, t) ==
    SelectSeq(Ids(d), LAMBDA c : c > t /\ Parent(d, t) # None /\ Parent(d, c) = Parent(d, t))
\* the tags among tag.previous_siblings
PreviousSiblings(d, t) ==
    SelectSeq(Ids(d), LAMBDA c : c < t /\ Parent(d, t) # None /\ Parent(d, c) = Parent(d, t))

RECURSIVE Text(_, _)
RECURSIVE TextOfAll(_, _)
\* tag.text: the text of the tag and of everything below it, concatenated
Text(d, t) == d.tag[t].own \o TextOfAll(d, Children(d, t))
TextOfAll(d, ts) ==
    IF ts = <<>> THEN <<>> ELSE Text(d, Head(ts)) \o TextOfAll(d, Tail(ts))

\* tag.get(attr, default)
Get(d, t, attr, default) ==
    IF attr \in AttrNames /\ d.tag[t].attrs[attr] # Absent
    THEN d.tag[t].attrs[attr] ELSE default

\* numbering in document order: the parent of tag i is tag i-1 or one of its ancestors
IsDocumentOrder(p) ==
    /\ p[1] = None
    /\ \A i \in 2..Len(p) :
          \E a \in 1..(i - 1) : p[i] = a /\ (a = i - 1 \/ \A j \in (a + 1)..(i - 1) : p[j] >= a)

Shapes(n) == {p \in [1..n -> 0..n] : IsDocumentOrder(p)}

MkDoc(p, ks) ==
    [parent |-> p,
     tag |-> [i \in 1..Len(p) |-> IF i = 1 THEN RootTag ELSE TagKinds[ks[i]]]]

\* every document of at most MaxTags tags made of the first two tag kinds
GenDocs ==
    UNION {{MkDoc(p, ks) : p \in Shapes(n), ks \in [1..n -> 1..2]} : n \in 1..(MaxTags + 1)}


(***************************************************************************)
(* Errors.  A raised exception is its class and its message.               *)
(***************************************************************************)
NoErr == [type |-> "none", msg |-> ""]
Raise(type, msg) == [type |-> type, msg |-> msg]

(***************************************************************************)
(* class Mode, class TravSide                                              *)
(***************************************************************************)
DEPTH == "DEPTH"
BREADTH == "BREADTH"
\* Node.mode before validation
NoMode == "None"
\* Mode.opposite mutated: the mode is not flipped
opposite_same(mode) == mode

opposite(mode) == IF mode = DEPTH THEN BREADTH ELSE DEPTH

LEFT == "LEFT"
RIGHT == "RIGHT"
\* Match.trav_side before a TravOp sets it
NoSide == "None"

(***************************************************************************)
(* class Match.  exts is a sequence of groups; a group is a sequence of    *)
(* items; an item is an ExtractorMatch or a nested group (a tuple).        *)
(***************************************************************************)
ExtractorMatch(node, extractor) == [k |-> "leaf", node |-> node, extractor |-> extractor]
Group(items) == [k |-> "group", items |-> items]

Match(current, next, exts, trav_side, globaldata) ==
    [current |-> current, next |-> next, exts |-> exts,
     trav_side |-> trav_side, globaldata |-> globaldata]

Last(s) == s[Len(s)]
Front(s) == SubSeq(s, 1, Len(s) - 1)

\* Match.progress mutated: ext becomes a group of its own on top of exts
progress_ext_grouping(m, current, next, ext) ==
    [m EXCEPT !.current = current, !.next = next, !.exts = Append(m.exts, ext)]

\* Match.progress mutated: current is left as it is
progress_keep_current(m, current, next) == [m EXCEPT !.next = next]

\* Match.progress with ext given
progress_ext(m, current, next, ext) ==
    [m EXCEPT !.current = current, !.next = next,
              !.exts = Append(Front(m.exts), Last(m.exts) \o ext)]

\* Match.progress with ext=None, trav_side=None
progress(m, current, next) == [m EXCEPT !.current = current, !.next = next]

\* Match.subgroup mutated: with ignore set the top group is emptied, not kept
subgroup_clearing(m, ignore) ==
    IF ignore THEN [m EXCEPT !.exts = Append(Front(m.exts), <<>>)]
    ELSE [m EXCEPT !.exts = Append(m.exts, <<>>)]

subgroup(m, ignore) ==
    IF ignore THEN m ELSE [m EXCEPT !.exts = Append(m.exts, <<>>)]

\* Match.degroup mutated: the popped group is spliced into the one below, not nested
degroup_flat(m, ignore) ==
    IF ignore THEN m
    ELSE [m EXCEPT !.exts =
            Append(SubSeq(m.exts, 1, Len(m.exts) - 2), m.exts[Len(m.exts) - 1] \o Last(m.exts))]

degroup(m, ignore) ==
    IF ignore THEN m
    ELSE [m EXCEPT !.exts =
            Append(SubSeq(m.exts, 1, Len(m.exts) - 2),
                   Append(m.exts[Len(m.exts) - 1], Group(Last(m.exts))))]

side(m, trav_side) == [m EXCEPT !.trav_side = trav_side]

RECURSIVE TagEq(_, _, _)
\* bs4.Tag.__eq__: the same name, attributes and contents
TagEq(d, a, b) ==
    /\ d.tag[a] = d.tag[b]
    /\ Len(Children(d, a)) = Len(Children(d, b))
    /\ \A i \in 1..Len(Children(d, a)) : TagEq(d, Children(d, a)[i], Children(d, b)[i])

\* ExtractorMatch.__eq__ mutated: the dataclass equality of the extractors (their
\* type) and the bs4 equality of the nodes, in place of the two identities
ExtractorMatchEqByValue(d, a, b) ==
    /\ TagEq(d, a.node, b.node)
    /\ a.extractor.type = b.extractor.type

\* ExtractorMatch.__eq__: the same node object and the same Extractor object
ExtractorMatchEq(d, a, b) ==
    /\ a.node = b.node
    /\ a.extractor.oid = b.extractor.oid

RECURSIVE ItemsEq(_, _, _)
\* == of two tuples of ExtractorMatch and nested tuples
ItemsEq(d, a, b) ==
    /\ Len(a) = Len(b)
    /\ \A i \in 1..Len(a) :
          /\ a[i].k = b[i].k
          /\ IF a[i].k = "leaf" THEN ExtractorMatchEq(d, a[i], b[i])
             ELSE ItemsEq(d, a[i].items, b[i].items)

ExtsEq(d, a, b) ==
    /\ Len(a) = Len(b)
    /\ \A i \in 1..Len(a) : ItemsEq(d, a[i], b[i])

\* Match.__eq__
MatchEq(d, a, b) ==
    /\ a.current = b.current
    /\ a.next = b.next
    /\ a.trav_side = b.trav_side
    /\ ExtsEq(d, a.exts, b.exts)

(***************************************************************************)
(* The AST, as tql/parser.py builds it.  A tag name of None (the wildcard  *)
(* @) is NoName, which no NAME token spells.  An Extractor's type is NAME  *)
(* or "." + NAME: dot says which, name is the NAME; oid is the identity of *)
(* the Extractor object (each extractor production builds a new one).      *)
(***************************************************************************)
NoName == "@"
NameTag(name) == [kind |-> "NameTag", name |-> name, mode |-> NoMode]
ClassTag(klass) == [kind |-> "ClassTag", klass |-> klass, mode |-> NoMode]
IdTag(id) == [kind |-> "IdTag", id |-> id, mode |-> NoMode]
BothTag(left, right) == [kind |-> "BothTag", left |-> left, right |-> right, mode |-> NoMode]
NotTag(expr) == [kind |-> "NotTag", expr |-> expr, mode |-> NoMode]
Extractor(dot, name, oid) == [type |-> [dot |-> dot, name |-> name], oid |-> oid]
Extractors(expr, extractors) ==
    [kind |-> "Extractors", expr |-> expr, extractors |-> extractors, mode |-> NoMode]
Filter(expr, filter) == [kind |-> "Filter", expr |-> expr, filter |-> filter, mode |-> NoMode]
ExtractorFilter(extractor) == [kind |-> "ExtractorFilter", extractor |-> extractor]
OpFilter(left, op, right) == [kind |-> "OpFilter", left |-> left, op |-> op, right |-> right]
FuncFilter(func) == [kind |-> "FuncFilter", func |-> func]
LiteralFilter(val) == [kind |-> "LiteralFilter", val |-> val]
TravOp(left, op, right) ==
    [kind |-> "TravOp", left |-> left, op |-> op, right |-> right, mode |-> NoMode]
RepOp(expr, trav_op, rep_op) ==
    [kind |-> "RepOp", expr |-> expr, trav_op |-> trav_op, rep_op |-> rep_op, mode |-> NoMode]
MonOp(expr, op) == [kind |-> "MonOp", expr |-> expr, op |-> op, mode |-> NoMode]
BinOp(left, op, right) ==
    [kind |-> "BinOp", left |-> left, op |-> op, right |-> right, mode |-> NoMode]
ModeSwitch(tag_expr, child_expr) ==
    [kind |-> "ModeSwitch", tag_expr |-> tag_expr, child_expr |-> child_expr,
     mode |-> NoMode, outer_mode |-> NoMode]
End == [kind |-> "End", mode |-> NoMode]
Document(expr) == [kind |-> "Document", expr |-> expr, mode |-> NoMode]

TagKindNames == {"NameTag", "ClassTag", "IdTag", "BothTag", "NotTag"}
\* isinstance(n, Tag)
IsTagNode(n) == n.kind \in TagKindNames

\* Node.children and its overrides
children(n) ==
    CASE n.kind \in {"BothTag", "TravOp", "BinOp"} -> <<n.left, n.right>>
      [] n.kind \in {"NotTag", "Extractors", "Filter", "RepOp", "MonOp", "Document"} -> <<n.expr>>
      [] n.kind = "ModeSwitch" -> <<n.tag_expr, n.child_expr>>
      [] OTHER -> <<>>

RECURSIVE has_extractors(_)
has_extractors(n) ==
    \/ n.kind = "Extractors" /\ n.extractors # <<>>
    \/ \E i \in 1..Len(children(n)) : has_extractors(children(n)[i])

RECURSIVE has_name(_)
has_name(n) ==
    CASE n.kind = "NameTag" -> n.name # NoName
      [] n.kind = "NotTag" -> FALSE
      [] OTHER -> \E i \in 1..Len(children(n)) : has_name(children(n)[i])

\* has_id mutated: only an IdTag itself has an id, a conjunction holding one does not
has_id_shallow(n) == n.kind = "IdTag"

RECURSIVE has_id(_)
has_id(n) ==
    CASE n.kind = "IdTag" -> TRUE
      [] n.kind = "NotTag" -> FALSE
      [] OTHER -> \E i \in 1..Len(children(n)) : has_id(children(n)[i])

(***************************************************************************)
(* Validation.  validate returns the error raised (or NoErr) and the node  *)
(* as validation leaves it: with mode (and outer_mode) assigned.           *)
(***************************************************************************)
Valid(n) == [err |-> NoErr, node |-> n]
Invalid(n, msg) == [err |-> Raise("RuntimeError", msg), node |-> n]

\* Extractor.validate mutated: any NAME is accepted
extractor_validate_any(e) == NoErr

\* Extractor.validate
extractor_validate(e) ==
    IF e.type.dot \/ e.type.name \in {"node", "txt"} THEN NoErr
    ELSE Raise("RuntimeError", "is not a valid extractor")

\* for extractor in self.extractors: extractor.validate()
extractors_validate(es) ==
    IF \E i \in 1..Len(es) : extractor_validate(es[i]) # NoErr
    THEN Raise("RuntimeError", "is not a valid extractor") ELSE NoErr

\* the test of TravOp.validate and of RepOp.validate
mode_mismatch(op, mode) ==
    \/ op \in {":", "::"} /\ mode # BREADTH
    \/ op \in {">", ">>"} /\ mode # DEPTH

RECURSIVE validate(_, _)
validate(n, mode) ==
    CASE n.kind \in {"NameTag", "ClassTag", "IdTag", "End"} ->
            Valid([n EXCEPT !.mode = mode])
      [] n.kind = "NotTag" ->
            LET e == validate(n.expr, mode) IN
            IF e.err # NoErr THEN [err |-> e.err, node |-> n]
            ELSE IF ~IsTagNode(n.expr) THEN Invalid(n, "Non-tag inside tag!")
            ELSE Valid([n EXCEPT !.expr = e.node, !.mode = mode])
      [] n.kind = "BothTag" ->
            LET l == validate(n.left, mode)
                r == validate(n.right, mode) IN
            IF l.err # NoErr THEN [err |-> l.err, node |-> n]
            ELSE IF r.err # NoErr THEN [err |-> r.err, node |-> n]
            ELSE IF ~IsTagNode(n.left) \/ ~IsTagNode(n.right) THEN Invalid(n, "Non-tag inside tag!")
            ELSE IF has_name(n.right) THEN Invalid(n, "Tag name should be on the left")
            ELSE IF has_id(n.left) /\ has_id(n.right) THEN Invalid(n, "Cannot have two or more ids")
            ELSE Valid([n EXCEPT !.left = l.node, !.right = r.node, !.mode = mode])
      [] n.kind = "Extractors" ->
            LET e == validate(n.expr, mode) IN
            IF e.err # NoErr THEN [err |-> e.err, node |-> n]
            ELSE IF extractors_validate(n.extractors) # NoErr
                 THEN [err |-> extractors_validate(n.extractors), node |-> n]
            ELSE Valid([n EXCEPT !.expr = e.node, !.mode = mode])
      [] n.kind \in {"Filter", "MonOp", "Document"} ->
            LET e == validate(n.expr, mode) IN
            IF e.err # NoErr THEN [err |-> e.err, node |-> n]
            ELSE Valid([n EXCEPT !.expr = e.node, !.mode = mode])
      [] n.kind \in {"TravOp", "BinOp"} ->
            LET l == validate(n.left, mode)
                r == validate(n.right, mode) IN
            IF n.kind = "TravOp" /\ mode_mismatch(n.op, mode) THEN Invalid(n, "used in wrong mode")
            ELSE IF l.err # NoErr THEN [err |-> l.err, node |-> n]
            ELSE IF r.err # NoErr THEN [err |-> r.err, node |-> n]
            ELSE Valid([n EXCEPT !.left = l.node, !.right = r.node, !.mode = mode])
      [] n.kind = "RepOp" ->
            LET e == validate(n.expr, mode) IN
            IF mode_mismatch(n.trav_op, mode) THEN Invalid(n, "used in wrong mode")
            ELSE IF e.err # NoErr THEN [err |-> e.err, node |-> n]
            ELSE Valid([n EXCEPT !.expr = e.node, !.mode = mode])
      [] n.kind = "ModeSwitch" ->
            LET t == validate(n.tag_expr, mode)
                c == validate(n.child_expr, opposite(mode)) IN
            IF t.err # NoErr THEN [err |-> t.err, node |-> n]
            ELSE IF c.err # NoErr THEN [err |-> c.err, node |-> n]
            ELSE Valid([n EXCEPT !.tag_expr = t.node, !.child_expr = c.node,
                                 !.outer_mode = mode])

\* tql.compile, from the parser's result on
compile(parsed) == validate(Document(parsed), DEPTH)


(***************************************************************************)
(* Tag predicates.                                                         *)
(***************************************************************************)
RECURSIVE tag_match(_, _, _)
tag_match(d, n, node) ==
    CASE n.kind = "NameTag" -> n.name = NoName \/ Name(d, node) = n.name
      [] n.kind = "ClassTag" ->
            LET klasses == Get(d, node, "class", VList(<<>>)) IN
            /\ klasses.t = "list"
            /\ \E i \in 1..Len(klasses.items) : klasses.items[i] = n.klass
      [] n.kind = "IdTag" ->
            LET id == Get(d, node, "id", Absent) IN id.t = "str" /\ id.s = n.id
      [] n.kind = "BothTag" -> tag_match(d, n.left, node) /\ tag_match(d, n.right, node)
      [] n.kind = "NotTag" -> ~tag_match(d, n.expr, node)

(***************************************************************************)
(* Extractors and filters.  A filter value is [err, val].                  *)
(***************************************************************************)
RECURSIVE JoinQuoted(_)
\* the items of a list as Python prints them: 'k', 'l'
JoinQuoted(l) ==
    IF l = <<>> THEN <<>>
    ELSE <<"'">> \o Head(l) \o <<"'">>
         \o (IF Len(l) > 1 THEN <<",", " ">> ELSE <<>>) \o JoinQuoted(Tail(l))

\* str(v) of an attribute value
PyStr(v) == IF v.t = "list" THEN <<"[">> \o JoinQuoted(v.items) \o <<"]">> ELSE v.s

Val(v) == [err |-> NoErr, val |-> v]
Fault(type, msg) == [err |-> Raise(type, msg), val |-> VBool(FALSE)]

\* Extractor.extract
extract(d, e, node) ==
    IF ~e.type.dot /\ e.type.name = "node" THEN Val(VTag(node))
    ELSE IF ~e.type.dot /\ e.type.name = "txt" THEN Val(VStr(Text(d, node)))
    ELSE IF e.type.dot THEN Val(VStr(PyStr(Get(d, node, e.type.name, VStr(<<>>)))))
    ELSE Fault("RuntimeError", "Unknown extractor")

\* bool(v)
Truthy(v) ==
    CASE v.t = "str" -> v.s # <<>>
      [] v.t = "int" -> v.i # 0
      [] v.t = "bool" -> v.b
      [] v.t = "list" -> v.items # <<>>
      [] v.t = "tag" -> TRUE

AsInt(v) == IF v.t = "bool" THEN (IF v.b THEN 1 ELSE 0) ELSE v.i

\* v == w
PyEq(d, v, w) ==
    CASE v.t = "str" /\ w.t = "str" -> v.s = w.s
      [] v.t \in {"int", "bool"} /\ w.t \in {"int", "bool"} -> AsInt(v) = AsInt(w)
      [] v.t = "tag" /\ w.t = "tag" -> TagEq(d, v.node, w.node)
      [] OTHER -> FALSE

\* re.compile(pattern).search(s) is not None, for a pattern of ordinary characters:
\* the pattern occurs in s
ReSearch(pattern, s) ==
    \E i \in 0..(Len(s) - Len(pattern)) : SubSeq(s, i + 1, i + Len(pattern)) = pattern

RECURSIVE value(_, _, _, _)
\* FilterExpr.value
value(d, f, node, globaldata) ==
    CASE f.kind = "ExtractorFilter" -> extract(d, f.extractor, node)
      [] f.kind = "LiteralFilter" -> Val(f.val)
      [] f.kind = "FuncFilter" ->
            IF f.func \in DOMAIN globaldata.filter_funcs
            THEN Val(VBool(node \in globaldata.filter_funcs[f.func]))
            ELSE Fault("KeyError", f.func)
      [] f.kind = "OpFilter" ->
            LET l == value(d, f.left, node, globaldata)
                r == value(d, f.right, node, globaldata) IN
            IF l.err # NoErr THEN l
            ELSE IF f.op = "&&" THEN
                IF ~Truthy(l.val) THEN Val(VBool(FALSE))
                ELSE IF r.err # NoErr THEN r ELSE Val(VBool(Truthy(r.val)))
            ELSE IF f.op = "||" THEN
                IF Truthy(l.val) THEN Val(VBool(TRUE))
                ELSE IF r.err # NoErr THEN r ELSE Val(VBool(Truthy(r.val)))
            ELSE IF f.op \in {"==", "!="} THEN
                IF r.err # NoErr THEN r
                ELSE Val(VBool(PyEq(d, l.val, r.val) <=> f.op = "=="))
            ELSE IF f.op \in {"~~", "!~"} THEN
                IF l.val.t # "str" THEN Fault("RuntimeError", "LHS of ~~ must be a string")
                ELSE IF r.err # NoErr THEN r
                ELSE IF r.val.t # "str" THEN Fault("RuntimeError", "RHS of ~~ must be a string")
                ELSE Val(VBool(ReSearch(r.val.s, l.val.s) <=> f.op = "~~"))
            ELSE Fault("RuntimeError", "Unknown filter operator")

(***************************************************************************)
(* The matcher.  full_match is a generator: its result is the sequence of  *)
(* matches it yields and the exception that ends it, if one does.          *)
(***************************************************************************)
descend_by_op(d, node, op) ==
    CASE op \in {">", ":"} -> <<node>>
      [] op = ">>" -> IF node = None THEN <<node>> ELSE <<node>> \o Descendants(d, node)
      [] op = "::" -> IF node = None THEN <<node>> ELSE <<node>> \o NextSiblings(d, node)

Yields(ms) == [out |-> ms, err |-> NoErr]
\* the enumeration was cut off after MaxPops pops of a RepOp worklist
CutOff == Raise("cut off", "MaxPops")

\* membership in a set of matches (Match.__eq__, Match.__hash__)
InSeen(d, m, seen) == \E s \in seen : MatchEq(d, s, m)

\* Tag.full_match
tag_full_match(d, n, match) ==
    IF match.next = None \/ ~tag_match(d, n, match.next) THEN <<>>
    ELSE IF n.mode = DEPTH THEN
        LET cs == Children(d, match.next) IN
        IF cs = <<>> THEN <<progress(match, match.next, None)>>
        ELSE [i \in 1..Len(cs) |-> progress(match, match.next, cs[i])]
    ELSE
        LET ns == NextSiblings(d, match.next) IN
        IF ns = <<>> THEN <<progress(match, match.next, None)>>
        ELSE <<progress(match, match.next, Head(ns))>>

\* End.full_match mutated: the side is not looked at, every match is anchored as LEFT
end_full_match_any_side(d, n, match) ==
    IF match.next = None THEN <<match>>
    ELSE IF n.mode = BREADTH /\ PreviousSiblings(d, match.next) = <<>> THEN <<match>>
    ELSE IF n.mode = DEPTH /\ Parent(d, match.next) = None THEN <<match>>
    ELSE <<>>

\* End.full_match
end_full_match(d, n, match) ==
    IF match.trav_side = LEFT THEN
        IF match.next = None THEN <<match>>
        ELSE IF n.mode = BREADTH /\ PreviousSiblings(d, match.next) = <<>> THEN <<match>>
        ELSE IF n.mode = DEPTH /\ Parent(d, match.next) = None THEN <<match>>
        ELSE <<>>
    ELSE IF match.next = None THEN <<match>> ELSE <<>>

RECURSIVE trav_inputs(_, _, _)
\* the matches TravOp.full_match hands to its right operand, in order
trav_inputs(d, n, lmatches) ==
    IF lmatches = <<>> THEN <<>>
    ELSE LET lmatch == Head(lmatches)
             subs == descend_by_op(d, lmatch.next, n.op) IN
         [i \in 1..Len(subs) |-> side(progress(lmatch, lmatch.current, subs[i]), RIGHT)]
         \o trav_inputs(d, n, Tail(lmatches))

RECURSIVE extractors_loop(_, _)
\* the loop of Extractors.full_match over the matches of its expression
extractors_loop(n, smatches) ==
    IF smatches = <<>> THEN Yields(<<>>)
    ELSE LET smatch == Head(smatches) IN
         IF smatch.current = None
         THEN [out |-> <<>>,
               err |-> Raise("AssertionError", "Trying to extract when current node is None")]
         ELSE LET rest == extractors_loop(n, Tail(smatches))
                  ext == [i \in 1..Len(n.extractors) |->
                             ExtractorMatch(smatch.current, n.extractors[i])] IN
              [out |-> <<progress_ext(smatch, smatch.current, smatch.next, ext)>> \o rest.out,
               err |-> rest.err]

RECURSIVE filter_loop(_, _, _)
\* the loop of Filter.full_match over the matches of its expression
filter_loop(d, n, smatches) ==
    IF smatches = <<>> THEN Yields(<<>>)
    ELSE LET smatch == Head(smatches) IN
         IF smatch.current = None
         THEN [out |-> <<>>,
               err |-> Raise("AssertionError", "Trying to filter when current node is None")]
         ELSE LET v == value(d, n.filter, smatch.current, smatch.globaldata)
                  rest == filter_loop(d, n, Tail(smatches)) IN
              IF v.err # NoErr THEN [out |-> <<>>, err |-> v.err]
              ELSE [out |-> (IF Truthy(v.val) THEN <<smatch>> ELSE <<>>) \o rest.out,
                    err |-> rest.err]

\* RepOp.full_match mutated: * yields no match of its own
zero_iteration_never(n, m0, ignore) == <<>>

\* what RepOp.full_match yields before its loop: for *, the match of no iteration
zero_iteration(n, m0, ignore) ==
    IF n.rep_op = "*" THEN <<degroup(m0, ignore)>> ELSE <<>>

\* the matches the worklist gains from smatch: one per subnode, unless seen
rep_pushes(d, n, smatch, seen) ==
    LET subs == descend_by_op(d, smatch.next, n.trav_op)
        ssmatches == [i \in 1..Len(subs) |-> progress(smatch, smatch.current, subs[i])] IN
    SelectSeq(ssmatches, LAMBDA ssmatch : ~InSeen(d, ssmatch, seen))

RECURSIVE rep_inner_lifo(_, _, _, _, _)
\* RepOp.full_match mutated: the worklist is a stack, the pushes go to its front
rep_inner_lifo(d, n, ignore, smatches, st) ==
    IF smatches = <<>> THEN st
    ELSE LET smatch == degroup(Head(smatches), ignore) IN
         IF InSeen(d, smatch, st.seen) THEN rep_inner_lifo(d, n, ignore, Tail(smatches), st)
         ELSE rep_inner_lifo(d, n, ignore, Tail(smatches),
                             [stack |-> rep_pushes(d, n, smatch, st.seen) \o st.stack,
                              seen |-> st.seen \cup {smatch},
                              out |-> Append(st.out, degroup(smatch, ignore))])

RECURSIVE rep_inner(_, _, _, _, _)
\* the for loop of RepOp.full_match over the matches of one iteration of the body;
\* st is the worklist, the seen set and what the call has yielded so far
rep_inner(d, n, ignore, smatches, st) ==
    IF smatches = <<>> THEN st
    ELSE LET smatch == degroup(Head(smatches), ignore) IN
         IF InSeen(d, smatch, st.seen) THEN rep_inner(d, n, ignore, Tail(smatches), st)
         ELSE rep_inner(d, n, ignore, Tail(smatches),
                        [stack |-> st.stack \o rep_pushes(d, n, smatch, st.seen),
                         seen |-> st.seen \cup {smatch},
                         out |-> Append(st.out, degroup(smatch, ignore))])

RECURSIVE full_match(_, _, _)
RECURSIVE full_match_each(_, _, _)
RECURSIVE rep_loop(_, _, _, _, _)
RECURSIVE modeswitch_loop(_, _, _)

\* for m in matches: yield from n.full_match(m)
full_match_each(d, n, matches) ==
    IF matches = <<>> THEN Yields(<<>>)
    ELSE LET first == full_match(d, n, Head(matches))
             rest == full_match_each(d, n, Tail(matches)) IN
         IF first.err # NoErr THEN first
         ELSE [out |-> first.out \o rest.out, err |-> rest.err]

\* the while loop of RepOp.full_match
rep_loop(d, n, ignore, st, pops) ==
    IF st.stack = <<>> THEN Yields(st.out)
    ELSE IF pops >= MaxPops THEN [out |-> st.out, err |-> CutOff]
    ELSE LET match == Head(st.stack)
             body == full_match(d, n.expr, subgroup(match, ignore))
             st2 == rep_inner(d, n, ignore, body.out, [st EXCEPT !.stack = Tail(st.stack)]) IN
         IF body.err # NoErr THEN [out |-> st2.out, err |-> body.err]
         ELSE rep_loop(d, n, ignore, st2, pops + 1)

RECURSIVE modeswitch_loop_keep(_, _, _)
\* ModeSwitch.full_match mutated: the matches of child_expr are yielded as they are,
\* next is not set back
modeswitch_loop_keep(d, n, smatches) ==
    IF smatches = <<>> THEN Yields(<<>>)
    ELSE LET smatch == Head(smatches)
             subs == descend_by_op(d, smatch.current, ">")
             inner == full_match_each(d, n.child_expr,
                         [i \in 1..Len(subs) |-> progress(smatch, smatch.current, subs[i])])
             rest == modeswitch_loop_keep(d, n, Tail(smatches)) IN
         IF inner.err # NoErr THEN inner
         ELSE [out |-> inner.out \o rest.out, err |-> rest.err]

\* the BREADTH branch of ModeSwitch.full_match, over the matches of tag_expr
modeswitch_loop(d, n, smatches) ==
    IF smatches = <<>> THEN Yields(<<>>)
    ELSE LET smatch == Head(smatches)
             subs == descend_by_op(d, smatch.current, ">")
             inner == full_match_each(d, n.child_expr,
                         [i \in 1..Len(subs) |-> progress(smatch, smatch.current, subs[i])])
             outs == [i \in 1..Len(inner.out) |->
                         progress(inner.out[i], inner.out[i].current, smatch.next)]
             rest == modeswitch_loop(d, n, Tail(smatches)) IN
         IF inner.err # NoErr THEN [out |-> outs, err |-> inner.err]
         ELSE [out |-> outs \o rest.out, err |-> rest.err]

full_match(d, n, match) ==
    CASE IsTagNode(n) -> Yields(tag_full_match(d, n, match))
      [] n.kind = "End" -> Yields(end_full_match(d, n, match))
      [] n.kind = "Extractors" ->
            LET sub == full_match(d, n.expr, match)
                res == extractors_loop(n, sub.out) IN
            IF res.err # NoErr THEN res ELSE [out |-> res.out, err |-> sub.err]
      [] n.kind = "Filter" ->
            LET sub == full_match(d, n.expr, match)
                res == filter_loop(d, n, sub.out) IN
            IF res.err # NoErr THEN res ELSE [out |-> res.out, err |-> sub.err]
      [] n.kind = "TravOp" ->
            LET l == full_match(d, n.left, side(match, LEFT))
                r == full_match_each(d, n.right, trav_inputs(d, n, l.out)) IN
            IF r.err # NoErr THEN r ELSE [out |-> r.out, err |-> l.err]
      [] n.kind = "RepOp" ->
            LET ignore == ~has_extractors(n)
                m0 == subgroup(match, ignore)
                first == zero_iteration(n, m0, ignore) IN
            rep_loop(d, n, ignore, [stack |-> <<m0>>, seen |-> {m0}, out |-> first], 0)
      [] n.kind = "MonOp" ->
            LET sub == full_match(d, n.expr, match) IN
            [out |-> <<match>> \o sub.out, err |-> sub.err]
      [] n.kind = "BinOp" ->
            LET l == full_match(d, n.left, match)
                r == full_match(d, n.right, match) IN
            IF l.err # NoErr THEN l ELSE [out |-> l.out \o r.out, err |-> r.err]
      [] n.kind = "ModeSwitch" ->
            LET t == full_match(d, n.tag_expr, match) IN
            IF n.outer_mode = DEPTH THEN
                LET c == full_match_each(d, n.child_expr, t.out) IN
                IF c.err # NoErr THEN c ELSE [out |-> c.out, err |-> t.err]
            ELSE
                LET c == modeswitch_loop(d, n, t.out) IN
                IF c.err # NoErr THEN c ELSE [out |-> c.out, err |-> t.err]
      [] n.kind = "Document" ->
            IF match.next # None /\ Name(d, match.next) # "[document]"
            THEN [out |-> <<>>,
                  err |-> Raise("RuntimeError", "Matching should run on the complete document")]
            ELSE LET subs == descend_by_op(d, match.next, ">>") IN
                 full_match_each(d, n.expr,
                     [i \in 1..Len(subs) |-> progress(match, match.next, subs[i])])


(***************************************************************************)
(* Inputs: expressions, documents, filter functions.                       *)
(***************************************************************************)
\* extractor productions of the parser; the number is the object's identity
XNode(oid) == Extractor(FALSE, "node", oid)
XTxt(oid) == Extractor(FALSE, "txt", oid)
XAttr(name, oid) == Extractor(TRUE, name, oid)
\* an extractor NAME that is neither node nor txt (div[z], c != 'e')
XBad(oid) == Extractor(FALSE, "z", oid)

TagA == NameTag("a")
TagB == NameTag("b")
AnyTag == NameTag(NoName)

\* the parser's results for the expressions written beside them
ExprPool ==
    { Extractors(TagA, <<XNode(1)>>),                                        \* a[node]
      TravOp(End, ">", Extractors(AnyTag, <<XNode(2)>>)),                    \* $ > @[node]
      TravOp(End, ">", Extractors(TagA, <<XNode(3)>>)),                      \* $ > a[node]
      TravOp(End, ">", Extractors(TagB, <<XNode(4)>>)),                      \* $ > b[node]
      TravOp(Extractors(AnyTag, <<XNode(5)>>), ">", End),                    \* @[node] > $
      TravOp(MonOp(TagA, "?"), ">", Extractors(TagB, <<XNode(6)>>)),            \* a? > b[node]
      BinOp(Extractors(TagA, <<XNode(7)>>), "|", Extractors(TagA, <<XNode(8)>>)),  \* a[node] | a[node]
      TravOp(TagA, ">>", Extractors(TagB, <<XNode(9), XTxt(10)>>)),             \* a >> b[node, txt]
      ModeSwitch(AnyTag, TravOp(Extractors(TagA, <<XNode(11)>>), "::",
                             Extractors(TagB, <<XNode(12)>>))),              \* {a[node] :: b[node]}
      RepOp(Extractors(TagA, <<XNode(13)>>), ">", "+"),                      \* (a[node] >)+
      TravOp(RepOp(TagA, ">", "*"), ">", Extractors(TagB, <<XNode(14)>>)),      \* (a >)* > b[node]
      ModeSwitch(AnyTag, TravOp(TagA, ":", TravOp(RepOp(Extractors(TagB, <<XNode(15)>>), ":", "*"),
                                            ":", TagA))),                    \* {a : (b[node] :)* : a}
      Extractors(Filter(AnyTag, FuncFilter("f")), <<XNode(16)>>),            \* @~($f)[node]
      Extractors(Filter(AnyTag, FuncFilter("g")), <<XNode(17)>>),            \* @~($g)[node]
      Extractors(Filter(TagA, OpFilter(FuncFilter("f"), "||", FuncFilter("g"))),
                 <<XNode(18)>>),                                          \* a~($f || $g)[node]
      Extractors(Filter(TagA, ExtractorFilter(XBad(19))), <<XNode(20)>>),    \* a~(z)[node]
      Extractors(TagA, <<XBad(21)>>),                                        \* a[z]
      TravOp(TagA, ":", TagB),                                                  \* a : b
      ModeSwitch(AnyTag, TravOp(TagA, ">", TagB)),                                 \* {a > b}
      Extractors(Filter(TagA, OpFilter(ExtractorFilter(XAttr("x", 22)), "==",
                                    LiteralFilter(VStr(<<"1">>)))),
                 <<XAttr("x", 23)>>),                                     \* a~(.x == '1')[.x]
      Extractors(Filter(AnyTag, OpFilter(ExtractorFilter(XTxt(24)), "~~",
                                      LiteralFilter(VStr(<<"1">>)))),
                 <<XTxt(25)>>),                                           \* @~(txt ~~ '1')[txt]
      Filter(TagA, OpFilter(ExtractorFilter(XAttr("x", 26)), "!~", LiteralFilter(VInt(1)))),
                                                                          \* a~(.x !~ 1)
      Extractors(MonOp(TagA, "?"), <<XNode(27)>>),                           \* (a?)[node]
      ModeSwitch(AnyTag, TravOp(End, ":", Extractors(TagA, <<XNode(28)>>))),    \* {$ : a[node]}
      ModeSwitch(AnyTag, TravOp(Extractors(TagB, <<XNode(29)>>), ":", End)),    \* {b[node] : $}
      Extractors(BothTag(TagA, NotTag(ClassTag(<<"k">>))), <<XNode(30)>>),   \* a!.k[node]
      Extractors(BothTag(ClassTag(<<"k">>), IdTag(<<"i">>)), <<XAttr("id", 31)>>),
                                                                          \* .k#i[.id]
      BothTag(TagA, TagB),                                                      \* a b
      ModeSwitch(AnyTag, TravOp(TagA, ":", ModeSwitch(TravOp(TagA, ">", Extractors(TagB, <<XNode(32)>>)),
                                                End))),                   \* {a : (a > b[node]){$}}
      Extractors(Filter(RepOp(TagA, ">", "*"), OpFilter(FuncFilter("f"), "||", FuncFilter("g"))),
                 <<XNode(33)>>),                                          \* (a >)*~($f || $g)[node]
      Extractors(End, <<XNode(34)>>),                                     \* $[node]
      End }                                                               \* $

\* a hand-made document with the third tag kind:
\* <a><a class="k" id="i" x="1">10</a><b></b></a><a class="k" id="i" x="1">10</a>
AttrDoc == MkDoc(<<0, 1, 2, 2, 1>>, <<1, 1, 3, 2, 3>>)

Docs == GenDocs \cup {AttrDoc}

\* what start_match may be handed as node: nothing, the document, a tag inside it
Roots(d) == {None, DocRoot} \cup {t \in Tags(d) : t = 2}

\* the filterfuncs of a call: none, or f, true of the tags named a
FuncSets(d) ==
    { [filter_funcs |-> [n \in {} |-> {}]],
      [filter_funcs |-> [n \in {"f"} |-> {t \in Tags(d) : Name(d, t) = "a"}]] }

TravOps == {">", ">>", ":", "::"}

\* x as the operand of each operator of the grammar
Wrap(x) ==
    {TravOp(x, op, TagA) : op \in TravOps} \cup {TravOp(TagA, op, x) : op \in TravOps}
    \cup {RepOp(x, op, "*") : op \in TravOps}
    \cup { ModeSwitch(x, TagA), ModeSwitch(AnyTag, x), MonOp(x, "?"),
           BinOp(x, "|", TagB), BinOp(TagB, "|", x),
           Extractors(x, <<XNode(0)>>), Filter(x, ExtractorFilter(XTxt(0))) }

RECURSIVE Wrapped(_, _)
\* the expressions of S under at most k operators
Wrapped(S, k) ==
    IF k = 0 THEN S
    ELSE LET W == Wrapped(S, k - 1) IN W \cup UNION {Wrap(x) : x \in W}

CoreExprs ==
    {TravOp(TagA, op, TagB) : op \in TravOps} \cup {RepOp(TagA, op, "+") : op \in TravOps}
    \cup { TagA, End,
           Extractors(TagA, <<XNode(0)>>),
           Extractors(TagA, <<XAttr("x", 0), XBad(0)>>),
           Filter(TagA, ExtractorFilter(XBad(0))),
           Filter(TagA, OpFilter(ExtractorFilter(XTxt(0)), "&&", ExtractorFilter(XBad(0)))) }

\* tag expressions: S, its negations and its conjunctions
TagStep(S) == S \cup {NotTag(t) : t \in S} \cup {BothTag(l, r) : l, r \in S}
GenTags == TagStep(TagStep({TagA, AnyTag, ClassTag(<<"k">>), IdTag(<<"i">>)}))

\* the generated expressions that validation is checked on
GenExprs == Wrapped(CoreExprs, MaxWrap) \cup Wrapped(GenTags, 1)


\* bodies of a repetition that hold no traversal operator of their own mode
BodiesAnyMode ==
    { Extractors(TagA, <<XNode(1)>>),                                     \* a[node]
      BinOp(Extractors(TagA, <<XNode(2)>>), "|", TagB),                   \* a[node] | b
      Extractors(Filter(TagA, ExtractorFilter(XTxt(3))), <<XTxt(4)>>),    \* a~(txt)[txt]
      TagA, AnyTag,                                                       \* a    @
      BinOp(TagA, "|", TagB),                                             \* a | b
      MonOp(TagA, "?"),                                                   \* a?
      Filter(AnyTag, ExtractorFilter(XTxt(5))) }                          \* @~(txt)

BodiesDepth ==
    BodiesAnyMode \cup
    { TravOp(TagA, ">", Extractors(TagB, <<XNode(6)>>)),                  \* a > b[node]
      TravOp(AnyTag, ">", RepOp(Extractors(TagB, <<XNode(7)>>), ">", "+")),  \* @ > (b[node] >)+
      ModeSwitch(TagA, TravOp(Extractors(AnyTag, <<XNode(8)>>), ":", AnyTag)),  \* a{@[node] : @}
      TravOp(AnyTag, ">>", TagA),                                         \* @ >> a
      RepOp(TagA, ">", "*"),                                              \* (a >)*
      ModeSwitch(TagA, RepOp(MonOp(TagB, "?"), ":", "+")) }               \* a{(b? :)+}

BodiesBreadth ==
    BodiesAnyMode \cup
    { TravOp(TagA, ":", Extractors(TagB, <<XNode(9)>>)),                  \* a : b[node]
      ModeSwitch(AnyTag, TravOp(TagA, ">", Extractors(AnyTag, <<XNode(10)>>))),  \* {a > @[node]}
      RepOp(TagB, ":", "*"),                                              \* (b :)*
      ModeSwitch(TagA, TagB) }                                            \* a{b}

\* the validated repetitions RepOp.full_match is checked on
RepPool ==
    {validate(RepOp(body, op, rep), DEPTH).node :
        body \in BodiesDepth, op \in {">", ">>"}, rep \in {"+", "*"}}
    \cup {validate(RepOp(body, op, rep), BREADTH).node :
        body \in BodiesBreadth, op \in {":", "::"}, rep \in {"+", "*"}}

\* bodies that can succeed without consuming a tag
BodiesSkipping ==
    { MonOp(TagA, "?"),                                                   \* a?
      MonOp(Extractors(TagA, <<XNode(40)>>), "?"),                        \* a[node]?
      RepOp(TagA, ">", "*"),                                              \* (a >)*
      RepOp(Extractors(TagA, <<XNode(41)>>), ">", "*"),                   \* (a[node] >)*
      BinOp(End, "|", Extractors(TagB, <<XNode(42)>>)),                   \* $ | b[node]
      End }                                                               \* $

\* the validated repetitions of those bodies
RepSkipPool ==
    {validate(RepOp(body, ">", rep), DEPTH).node : body \in BodiesSkipping, rep \in {"+", "*"}}
    \cup {validate(RepOp(body, ">>", "+"), DEPTH).node : body \in BodiesSkipping}

\* the expressions inside the braces of a ModeSwitch that stands in BREADTH mode
ChildrenDepth ==
    { TagA,                                                               \* a
      Extractors(AnyTag, <<XNode(50)>>),                                  \* @[node]
      TravOp(AnyTag, ">", Extractors(AnyTag, <<XNode(51)>>)),             \* @ > @[node]
      TravOp(TagA, ">>", Extractors(TagB, <<XTxt(52)>>)),                 \* a >> b[txt]
      MonOp(TagB, "?"),                                                   \* b?
      TravOp(End, ">", AnyTag) }                                          \* $ > @

\* the validated nodes full_match is checked on, one by one
NodePool ==
    {validate(End, mode).node : mode \in {DEPTH, BREADTH}}
    \cup {validate(ModeSwitch(t, c), BREADTH).node :
            t \in {TagA, AnyTag, Extractors(AnyTag, <<XNode(53)>>), MonOp(TagA, "?")},
            c \in ChildrenDepth}
    \cup {validate(ModeSwitch(TagA, c), DEPTH).node :
            c \in {TagB, TravOp(Extractors(AnyTag, <<XNode(54)>>), ":", End)}}
    \cup {validate(n, DEPTH).node :
            n \in { TravOp(Extractors(TagA, <<XNode(55)>>), ">>", RepOp(Extractors(TagB, <<XNode(56)>>), ">", "*")),
                    BinOp(Extractors(TagA, <<XNode(57), XTxt(58)>>), "|", MonOp(TagB, "?")),
                    Filter(Extractors(AnyTag, <<XNode(59)>>), ExtractorFilter(XTxt(60))) }}

\* the stacks of groups of the matches RepOp.full_match is called on
InputExts ==
    { << <<>> >>,
      << <<ExtractorMatch(DocRoot, XNode(90))>>,
         <<ExtractorMatch(DocRoot, XTxt(91)), Group(<<>>)>> >> }

\* the matches RepOp.full_match is called on
RepInputs(d) ==
    {Match(current, next, exts, trav_side, [filter_funcs |-> [n \in {} |-> {}]]) :
        current \in {None, DocRoot}, next \in {None} \cup Tags(d),
        exts \in InputExts, trav_side \in {NoSide, LEFT}}

\* the matches full_match is called on, behind either side of a TravOp or none
NodeInputs(d) ==
    {Match(current, next, exts, trav_side, [filter_funcs |-> [n \in {} |-> {}]]) :
        current \in {None, DocRoot}, next \in {None} \cup Tags(d),
        exts \in InputExts, trav_side \in {NoSide, LEFT, RIGHT}}

\* the documents of at most two tags, and the matches at the root or at the first tag
RepSkipCalls ==
    {<<d, match>> \in UNION {{d} \X RepInputs(d) : d \in GenDocs} :
        /\ Len(d.parent) <= 3
        /\ match.current = DocRoot /\ match.next \in {DocRoot, 2} /\ match.trav_side = NoSide}


(***************************************************************************)
(* decode_string (tql/parser.py).  A str is a sequence of characters; the  *)
(* result is the sequence of the code points of the decoded text.          *)
(***************************************************************************)
\* ord() of the characters the checked literals are made of
Ord ==
    ("\\" :> 92) @@ ("\n" :> 10) @@ ("0" :> 48) @@ ("1" :> 49) @@ ("7" :> 55) @@ ("8" :> 56)
    @@ ("F" :> 70) @@ ("U" :> 85) @@ ("n" :> 110) @@ ("u" :> 117) @@ ("x" :> 120)
    @@ ("z" :> 122)

SINGLE_STRING_ESCAPES ==
    ("\\" :> 92) @@ ("'" :> 39) @@ ("\"" :> 34) @@ ("a" :> 7) @@ ("b" :> 8) @@ ("f" :> 12)
    @@ ("n" :> 10) @@ ("r" :> 13) @@ ("t" :> 9) @@ ("v" :> 11)

\* the value of a character as a digit of int(txt, base)
DigitValue ==
    ("0" :> 0) @@ ("1" :> 1) @@ ("2" :> 2) @@ ("3" :> 3) @@ ("4" :> 4) @@ ("5" :> 5)
    @@ ("6" :> 6) @@ ("7" :> 7) @@ ("8" :> 8) @@ ("9" :> 9)
    @@ ("a" :> 10) @@ ("b" :> 11) @@ ("c" :> 12) @@ ("d" :> 13) @@ ("e" :> 14) @@ ("f" :> 15)
    @@ ("A" :> 10) @@ ("B" :> 11) @@ ("C" :> 12) @@ ("D" :> 13) @@ ("E" :> 14) @@ ("F" :> 15)

\* [0-9A-Fa-f]
IsHex(c) == c \in DOMAIN DigitValue
\* [0-7]
IsOct(c) == c \in DOMAIN DigitValue /\ DigitValue[c] < 8
\* str.isdigit, on the characters of Ord
IsDigit(c) == c \in DOMAIN DigitValue /\ DigitValue[c] < 10

\* sys.maxunicode + 1: chr accepts the code points below it
CodePoints == 1114112

RECURSIVE ParseInt(_, _, _)
\* int(txt, base) continued from acc; -1 is ValueError (no digit, or a digit that
\* is none of the base); values of CodePoints and above are reported as CodePoints
ParseInt(txt, base, acc) ==
    IF txt = <<>> THEN acc
    ELSE IF ~IsHex(Head(txt)) \/ DigitValue[Head(txt)] >= base THEN -1
    ELSE LET v == acc * base + DigitValue[Head(txt)] IN
         ParseInt(Tail(txt), base, IF v > CodePoints THEN CodePoints ELSE v)

\* chr(int(txt, base))
chr_int(txt, base) ==
    LET v == IF txt = <<>> THEN -1 ELSE ParseInt(txt, base, 0) IN
    IF v = -1 THEN [out |-> <<>>, err |-> Raise("ValueError", "invalid literal for int()")]
    ELSE IF Len(txt) = 8 /\ DigitValue[txt[1]] >= 8
    THEN [out |-> <<>>, err |-> Raise("OverflowError", "Python int too large to convert to C int")]
    ELSE IF v >= CodePoints
    THEN [out |-> <<>>, err |-> Raise("ValueError", "chr() arg not in range(0x110000)")]
    ELSE [out |-> <<v>>, err |-> NoErr]

\* what the regular expression of decode_string matches after the backslash at s[i]:
\* group(1), or <<>> where it does not match at all
escape_group(s, i) ==
    LET rest == SubSeq(s, i + 1, Len(s))
        hex(k) == Len(rest) >= k + 1 /\ \A j \in 2..(k + 1) : IsHex(rest[j])
        oct(k) == Len(rest) >= k /\ \A j \in 1..k : IsOct(rest[j]) IN
    IF rest = <<>> THEN <<>>
    ELSE IF rest[1] = "u" /\ hex(4) THEN SubSeq(rest, 1, 5)
    ELSE IF rest[1] = "U" /\ hex(8) THEN SubSeq(rest, 1, 9)
    ELSE IF rest[1] = "x" /\ hex(2) THEN SubSeq(rest, 1, 3)
    ELSE IF oct(3) THEN SubSeq(rest, 1, 3)
    ELSE IF oct(2) THEN SubSeq(rest, 1, 2)
    ELSE IF rest[1] # "\n" THEN <<rest[1]>>
    ELSE <<>>

\* replace(match), txt being match.group(1)
replace(txt) ==
    IF Len(txt) = 1 /\ txt[1] \in DOMAIN SINGLE_STRING_ESCAPES
    THEN [out |-> <<SINGLE_STRING_ESCAPES[txt[1]]>>, err |-> NoErr]
    ELSE IF \A j \in 1..Len(txt) : IsDigit(txt[j]) THEN chr_int(txt, 8)
    ELSE IF txt[1] \in {"u", "U"} THEN chr_int(Tail(txt), 16)
    ELSE IF txt[1] = "x" THEN chr_int(Tail(txt), 16)
    ELSE [out |-> <<92>> \o [j \in 1..Len(txt) |-> Ord[txt[j]]], err |-> NoErr]

RECURSIVE decode_from(_, _)
\* re.sub from position i on: the text outside the matches is copied
decode_from(s, i) ==
    IF i > Len(s) THEN [out |-> <<>>, err |-> NoErr]
    ELSE LET txt == IF s[i] = "\\" THEN escape_group(s, i) ELSE <<>> IN
         IF txt = <<>>
         THEN LET rest == decode_from(s, i + 1) IN
              [out |-> <<Ord[s[i]]>> \o rest.out, err |-> rest.err]
         ELSE LET r == replace(txt) IN
              IF r.err # NoErr THEN r
              ELSE LET rest == decode_from(s, i + Len(txt) + 1) IN
                   [out |-> r.out \o rest.out, err |-> rest.err]

decode_string(s) == decode_from(s, 1)

\* the characters of the short literals
ShortAlphabet == {"\\", "n", "u", "x", "0", "7", "8", "z"}

RECURSIVE Strings(_, _)
\* the strings over alphabet of at most k characters
Strings(alphabet, k) ==
    IF k = 0 THEN {<<>>}
    ELSE LET S == Strings(alphabet, k - 1) IN
         S \cup {Append(x, c) : x \in {y \in S : Len(y) = k - 1}, c \in alphabet}

\* literals with the long escapes: \x7F \u00F1 \u00Fz \U0010FFFF \U00110000
\* \UFFFFFFFF \U0000007z, and a backslash before a newline
LongLiterals ==
    { <<"\\", "x", "7", "F">>,
      <<"\\", "u", "0", "0", "F", "1">>,
      <<"\\", "u", "0", "0", "F", "z">>,
      <<"\\", "U", "0", "0", "1", "0", "F", "F", "F", "F">>,
      <<"\\", "U", "0", "0", "1", "1", "0", "0", "0", "0">>,
      <<"\\", "U", "F", "F", "F", "F", "F", "F", "F", "F">>,
      <<"\\", "U", "0", "0", "0", "0", "0", "0", "7", "z">>,
      <<"\\", "\n">> }

\* the texts between quotes that the lexer hands to decode_string
Literals ==
    Strings(ShortAlphabet, MaxLen)
    \cup {p \o e \o q : p \in Strings({"\\", "z"}, 1), e \in LongLiterals, q \in Strings({"0", "z"}, 1)}

(***************************************************************************)
(* The state machine.                                                      *)
(***************************************************************************)
VARIABLES
    pc,        \* "idle", "compiled", "failed", "matching", "done", "aborted", "called",
               \* "lexing", "decoded", "decode failed"
    expr,      \* the parser's result
    ast,       \* the validated Document (of a RepOp alone, under SpecRepOp)
    err,       \* the exception that compile or the enumeration raised
    doc,       \* the document matched against
    inm,       \* the Match the enumeration started from
    produced,  \* the generator being consumed: what it yields, how it ends
    pos,       \* how many of its matches have been consumed
    seen,      \* start_match: the set seen
    results,   \* start_match: what it has yielded
    lit,       \* decode_string: the text between the quotes of a STRING token
    decoded    \* decode_string: what it returned

vars == <<pc, expr, ast, err, doc, inm, produced, pos, seen, results, lit, decoded>>

NoDoc == MkDoc(<<0>>, <<0>>)
NoMatch == Match(None, None, << <<>> >>, NoSide, [filter_funcs |-> [n \in {} |-> {}]])

Init ==
    /\ pc = "idle"
    /\ expr = End
    /\ ast = End
    /\ err = NoErr
    /\ doc = NoDoc
    /\ inm = NoMatch
    /\ produced = Yields(<<>>)
    /\ pos = 0
    /\ seen = {}
    /\ results = <<>>
    /\ lit = <<>>
    /\ decoded = <<>>

\* tql.compile(expr), e being what the parser returns for expr
Compile(e) ==
    /\ pc = "idle"
    /\ expr' = e
    /\ LET c == compile(e) IN
       IF c.err = NoErr
       THEN pc' = "compiled" /\ ast' = c.node /\ err' = err
       ELSE pc' = "failed" /\ err' = c.err /\ ast' = ast
    /\ UNCHANGED <<doc, inm, produced, pos, seen, results, lit, decoded>>

\* Node.start_match up to its loop: the call of self.full_match
StartMatch(d, node, globaldata) ==
    /\ pc = "compiled"
    /\ doc' = d
    /\ inm' = Match(None, node, << <<>> >>, NoSide, globaldata)
    /\ produced' = full_match(d, ast, inm')
    /\ pos' = 0
    /\ seen' = {}
    /\ results' = <<>>
    /\ pc' = "matching"
    /\ UNCHANGED <<expr, ast, err, lit, decoded>>

\* the body of the loop of start_match without its test: every outer group is yielded
start_match_step_all(d, st, match) ==
    [seen |-> st.seen \cup {match.exts[1]}, results |-> Append(st.results, match.exts[1])]

\* the body of the loop of start_match, for one match of full_match
start_match_step(d, st, match) ==
    IF ~\E s \in st.seen : ItemsEq(d, s, match.exts[1])
    THEN [seen |-> st.seen \cup {match.exts[1]}, results |-> Append(st.results, match.exts[1])]
    ELSE st

\* one turn of the loop of start_match
NextMatch ==
    /\ pc = "matching"
    /\ pos < Len(produced.out)
    /\ LET st == start_match_step(doc, [seen |-> seen, results |-> results],
                                  produced.out[pos + 1]) IN
       seen' = st.seen /\ results' = st.results
    /\ pos' = pos + 1
    /\ UNCHANGED <<pc, expr, ast, err, doc, inm, produced, lit, decoded>>

\* the generator is exhausted
Finish ==
    /\ pc = "matching"
    /\ pos = Len(produced.out)
    /\ produced.err = NoErr
    /\ pc' = "done"
    /\ UNCHANGED <<expr, ast, err, doc, inm, produced, pos, seen, results, lit, decoded>>

\* the generator raises
Abort ==
    /\ pc = "matching"
    /\ pos = Len(produced.out)
    /\ produced.err # NoErr
    /\ pc' = "aborted"
    /\ err' = produced.err
    /\ UNCHANGED <<expr, ast, doc, inm, produced, pos, seen, results, lit, decoded>>

Next ==
    \/ pc = "idle" /\ \E e \in ExprPool : Compile(e)
    \/ pc = "compiled" /\ \E d \in Docs : \E node \in Roots(d) : \E globaldata \in FuncSets(d) :
          StartMatch(d, node, globaldata)
    \/ NextMatch
    \/ Finish
    \/ Abort

Spec == Init /\ [][Next]_vars

\* the lexer has matched a STRING token and not yet decoded it
InitDecode ==
    /\ pc = "lexing"
    /\ lit \in Literals
    /\ expr = End
    /\ ast = End
    /\ err = NoErr
    /\ doc = NoDoc
    /\ inm = NoMatch
    /\ produced = Yields(<<>>)
    /\ pos = 0
    /\ seen = {}
    /\ results = <<>>
    /\ decoded = <<>>

\* TQLLexer.STRING: t.value = decode_string(t.value[1:-1])
Decode ==
    /\ pc = "lexing"
    /\ LET r == decode_string(lit) IN
       IF r.err = NoErr
       THEN pc' = "decoded" /\ decoded' = r.out /\ err' = err
       ELSE pc' = "decode failed" /\ err' = r.err /\ decoded' = decoded
    /\ UNCHANGED <<expr, ast, doc, inm, produced, pos, seen, results, lit>>

NextDecode == Decode

\* decode_string alone, on the literals
SpecDecode == InitDecode /\ [][NextDecode]_vars

\* compile alone, on the generated expressions
NextValidate == pc = "idle" /\ \E e \in GenExprs : Compile(e)

SpecValidate == Init /\ [][NextValidate]_vars

\* RepOp.full_match is called on match
RepCall(d, n, match) ==
    /\ pc = "idle"
    /\ doc' = d
    /\ ast' = n
    /\ inm' = match
    /\ produced' = full_match(d, n, match)
    /\ pos' = 0
    /\ pc' = "called"
    /\ UNCHANGED <<expr, err, seen, results, lit, decoded>>

\* the caller takes the next match the generator yields
RepNext ==
    /\ pc = "called"
    /\ pos < Len(produced.out)
    /\ pos' = pos + 1
    /\ UNCHANGED <<pc, expr, ast, err, doc, inm, produced, seen, results, lit, decoded>>

NextRepOp ==
    \/ pc = "idle" /\ \E d \in GenDocs : \E n \in RepPool : \E match \in RepInputs(d) :
          RepCall(d, n, match)
    \/ RepNext

\* RepOp.full_match alone, on the repetitions of RepPool
SpecRepOp == Init /\ [][NextRepOp]_vars

NextRepSkip ==
    \/ pc = "idle" /\ \E c \in RepSkipCalls : \E n \in RepSkipPool : RepCall(c[1], n, c[2])
    \/ RepNext

\* RepOp.full_match alone, on the repetitions of bodies that can skip
SpecRepSkip == Init /\ [][NextRepSkip]_vars

NextNodes ==
    \/ pc = "idle" /\ \E d \in GenDocs : \E n \in NodePool : \E match \in NodeInputs(d) :
          RepCall(d, n, match)
    \/ RepNext
    \/ Next

\* full_match of single nodes, and the matching of the pool's expressions
SpecNodes == Init /\ [][NextNodes]_vars

NextStar == Next \/ NextRepOp

\* matching of the pool's expressions, and RepOp.full_match on the repetitions
SpecStar == Init /\ [][NextStar]_vars


(***************************************************************************)
(* Properties of start_match and of Document.full_match (Spec).            *)
(***************************************************************************)
Started == pc \in {"matching", "done", "aborted"}

\* the outer groups of the matches consumed so far, in order of production
OuterGroups == [i \in 1..pos |-> produced.out[i].exts[1]]

RECURSIVE FirstOccurrences(_, _)
\* groups without the repetitions of a group met before (met: those already kept)
FirstOccurrences(groups, met) ==
    IF groups = <<>> THEN <<>>
    ELSE IF Head(groups) \in met THEN FirstOccurrences(Tail(groups), met)
    ELSE <<Head(groups)>> \o FirstOccurrences(Tail(groups), met \cup {Head(groups)})

\* C1: what start_match has yielded is every outer group full_match has produced,
\* once each, in the order of first production (a leaf is a node and an Extractor
\* object: two leaves are equal when both are the same).
DedupExactlyOnce ==
    Started =>
        /\ results = FirstOccurrences(OuterGroups, {})
        /\ \A i, j \in 1..Len(results) : i # j => results[i] # results[j]
        /\ \A i \in 1..pos : \E j \in 1..Len(results) : results[j] = OuterGroups[i]

\* a repeated outer group was met and dropped, next to two groups that were kept
DedupCollapsed == pc = "done" /\ Len(results) >= 2 /\ pos > Len(results)

\* the tag as a reader sees it: its name, attributes and text
Looks(d, t) == <<Name(d, t), d.tag[t].attrs, Text(d, t)>>

RECURSIVE SameByValue(_, _, _)
\* two groups of the same nested shape whose leaves bind tags that look the same
\* through extractors of the same type
SameByValue(d, g, h) ==
    /\ Len(g) = Len(h)
    /\ \A i \in 1..Len(g) :
          /\ g[i].k = h[i].k
          /\ IF g[i].k = "leaf"
             THEN /\ Looks(d, g[i].node) = Looks(d, h[i].node)
                  /\ g[i].extractor.type = h[i].extractor.type
             ELSE SameByValue(d, g[i].items, h[i].items)

\* C7: the dedup collapses two outer groups only when they bind the same tag nodes
\* through the same Extractor objects: there are as many results as distinct groups,
\* and two produced groups that differ only in which node (of two that look the
\* same) or which Extractor object (of two of one type) they bind are both results.
DedupByIdentity ==
    Started =>
        /\ Len(results) = Cardinality({OuterGroups[i] : i \in 1..pos})
        /\ \A i, j \in 1..pos :
              (OuterGroups[i] # OuterGroups[j] /\ SameByValue(doc, OuterGroups[i], OuterGroups[j]))
              => \E a, b \in 1..Len(results) :
                    a # b /\ results[a] = OuterGroups[i] /\ results[b] = OuterGroups[j]

\* results that look the same: one pair binds two nodes, one pair the same node
\* through two Extractor objects
LookAlikesSurfaced ==
    /\ pc = "done"
    /\ \E a, b \in 1..Len(results) :
          /\ SameByValue(doc, results[a], results[b])
          /\ Len(results[a]) = 1 /\ results[a][1].k = "leaf"
          /\ results[a][1].node # results[b][1].node
    /\ \E a, b \in 1..Len(results) :
          /\ SameByValue(doc, results[a], results[b])
          /\ Len(results[a]) = 1 /\ results[a][1].k = "leaf"
          /\ results[a][1].node = results[b][1].node
          /\ results[a][1].extractor.oid # results[b][1].extractor.oid

RECURSIVE FilterFuncs(_)
\* the names of the $name terms of a filter
FilterFuncs(f) ==
    CASE f.kind = "FuncFilter" -> {f.func}
      [] f.kind = "OpFilter" -> FilterFuncs(f.left) \cup FilterFuncs(f.right)
      [] OTHER -> {}

RECURSIVE ExprFuncs(_)
\* the names of the $name terms of an expression
ExprFuncs(n) ==
    (IF n.kind = "Filter" THEN FilterFuncs(n.filter) ELSE {})
    \cup UNION {ExprFuncs(children(n)[i]) : i \in 1..Len(children(n))}

\* the enumeration ended on the lookup of a $name missing from the mapping (the
\* exception of a failed lookup carries the name)
UnknownFuncAbort ==
    /\ pc = "aborted"
    /\ err.msg \in ExprFuncs(expr) \ DOMAIN inm.globaldata.filter_funcs

\* C4: the fault of an unknown $name is of the one error kind, RuntimeError
UnknownFuncIsRuntimeError == UnknownFuncAbort => err.type = "RuntimeError"

NotADocument == Raise("RuntimeError", "Matching should run on the complete document")

\* C8: matching on anything but the document root aborts with NotADocument and
\* yields nothing
NonDocumentRootAborts ==
    (Started /\ inm.next # DocRoot) => (produced.out = <<>> /\ produced.err = NotADocument)

\* expr is $ > T[node] for a tag expression T
IsTopLevelQuery(e) ==
    /\ e.kind = "TravOp" /\ e.op = ">" /\ e.left = End
    /\ e.right.kind = "Extractors" /\ IsTagNode(e.right.expr)
    /\ Len(e.right.extractors) = 1 /\ e.right.extractors[1].type = XNode(0).type

\* the tags matching T whose parent is the document root
TopLevelMatches(d, T) == SelectSeq(Children(d, DocRoot), LAMBDA t : tag_match(d, T, t))

\* C9: $ > T[node] yields one result per top-level tag matching T, nothing else
TopLevelQueryResults ==
    (pc = "done" /\ inm.next = DocRoot /\ IsTopLevelQuery(expr)) =>
        LET top == TopLevelMatches(doc, expr.right.expr) IN
        /\ Len(results) = Len(top)
        /\ {results[i] : i \in 1..Len(results)}
              = {<<ExtractorMatch(top[i], expr.right.extractors[1])>> : i \in 1..Len(top)}


(***************************************************************************)
(* Properties of validation (SpecValidate).                                *)
(***************************************************************************)
Validated == pc \in {"compiled", "failed"}
Rejected == pc = "failed" /\ err.type = "RuntimeError"

RECURSIVE SubNodes(_)
\* the nodes of an expression
SubNodes(n) == {n} \cup UNION {SubNodes(children(n)[i]) : i \in 1..Len(children(n))}

RECURSIVE OpsAt(_, _)
\* the traversal operators of an expression, each with the number of {...} bodies
\* around it (the tag_expr of a ModeSwitch stands outside its braces)
OpsAt(n, braces) ==
    (CASE n.kind = "TravOp" -> {<<n.op, braces>>}
       [] n.kind = "RepOp" -> {<<n.trav_op, braces>>}
       [] OTHER -> {})
    \cup (IF n.kind = "ModeSwitch"
          THEN OpsAt(n.tag_expr, braces) \cup OpsAt(n.child_expr, braces + 1)
          ELSE UNION {OpsAt(children(n)[i], braces) : i \in 1..Len(children(n))})

Misplaced(o) ==
    \/ o[1] \in {":", "::"} /\ o[2] % 2 = 0
    \/ o[1] \in {">", ">>"} /\ o[2] % 2 = 1

ModeViolation(e) == \E o \in OpsAt(e, 0) : Misplaced(o)

RECURSIVE Conjuncts(_)
\* the operands of a juxtaposition of tags, left to right
Conjuncts(t) ==
    IF t.kind = "BothTag" THEN Conjuncts(t.left) \o Conjuncts(t.right) ELSE <<t>>

Named(t) == t.kind = "NameTag" /\ t.name # NoName
CarriesName(t) == \E i \in 1..Len(Conjuncts(t)) : Named(Conjuncts(t)[i])
CarriesId(t) == \E i \in 1..Len(Conjuncts(t)) : Conjuncts(t)[i].kind = "IdTag"

BadConjunction(b) ==
    /\ b.kind = "BothTag"
    /\ (CarriesName(b.right) \/ (CarriesId(b.left) /\ CarriesId(b.right)))

TagShapeFault(e) == \E b \in SubNodes(e) : BadConjunction(b)

ValidType(x) == x.type.dot \/ x.type.name \in {"node", "txt"}

\* an extraction list expr[...] holds an extractor of no valid type
BadExtractionList(e) ==
    \E x \in SubNodes(e) :
        x.kind = "Extractors" /\ \E i \in 1..Len(x.extractors) : ~ValidType(x.extractors[i])

RECURSIVE FilterExtractors(_)
FilterExtractors(f) ==
    CASE f.kind = "ExtractorFilter" -> {f.extractor}
      [] f.kind = "OpFilter" -> FilterExtractors(f.left) \cup FilterExtractors(f.right)
      [] OTHER -> {}

\* a filter expr~(...) holds an extractor of no valid type
BadFilterExtractor(e) ==
    \E x \in SubNodes(e) :
        x.kind = "Filter" /\ \E ex \in FilterExtractors(x.filter) : ~ValidType(ex)

\* C2: validation fails whenever a : or :: stands in DEPTH mode (inside an even
\* number of {...} bodies) or a > or >> in BREADTH mode (inside an odd number), and
\* succeeds when none does and the tag and extractor checks pass; the tag_expr of a
\* ModeSwitch counts as outside its braces, its child_expr as inside.
ModeDiscipline ==
    Validated =>
        /\ ModeViolation(expr) => Rejected
        /\ (~ModeViolation(expr) /\ ~TagShapeFault(expr) /\ ~BadExtractionList(expr))
              => pc = "compiled"

\* rejected for a breadth operator inside two nested {...} bodies, and nothing else
RejectedInsideTwoBraces ==
    /\ Rejected
    /\ ~TagShapeFault(expr) /\ ~BadExtractionList(expr)
    /\ \E o \in OpsAt(expr, 0) : Misplaced(o)
    /\ \A o \in OpsAt(expr, 0) : Misplaced(o) => (o[2] = 2 /\ o[1] \in {":", "::"})

\* C3 as claimed: an extractor of no valid type makes compile fail wherever it
\* stands, in an extraction list or in a filter
InvalidExtractorRejectedAnywhere ==
    (Validated /\ (BadExtractionList(expr) \/ BadFilterExtractor(expr))) => Rejected

\* C3 amended: an extractor of no valid type in an extraction list makes compile
\* fail; in a filter it is not validated, and an expression with no other fault
\* compiles
InvalidListedExtractorRejected ==
    Validated =>
        /\ BadExtractionList(expr) => Rejected
        /\ (BadFilterExtractor(expr) /\ ~BadExtractionList(expr)
            /\ ~ModeViolation(expr) /\ ~TagShapeFault(expr)) => pc = "compiled"

\* rejected for the extraction list alone, the list standing under other operators
RejectedForExtractionList ==
    /\ Rejected
    /\ BadExtractionList(expr) /\ ~ModeViolation(expr) /\ ~TagShapeFault(expr)
    /\ expr.kind # "Extractors"

\* C10: validation rejects every conjunction whose right operand carries a name or
\* whose operands both carry an id (a NotTag carries neither), and accepts a tag
\* expression with no such conjunction; so in a compiled expression a conjunction
\* has a named NameTag only as its leftmost operand and at most one IdTag.
ConjunctionShape ==
    Validated =>
        /\ TagShapeFault(expr) => Rejected
        /\ (IsTagNode(expr) /\ ~TagShapeFault(expr)) => pc = "compiled"
        /\ pc = "compiled" =>
              \A b \in SubNodes(expr) :
                  b.kind = "BothTag" =>
                      LET cs == Conjuncts(b) IN
                      /\ \A i \in 2..Len(cs) : ~Named(cs[i])
                      /\ Cardinality({i \in 1..Len(cs) : cs[i].kind = "IdTag"}) <= 1

\* a compiled conjunction of a name, an id and a negated name
CompiledConjunction ==
    /\ pc = "compiled"
    /\ expr.kind = "BothTag"
    /\ LET cs == Conjuncts(expr) IN
       /\ Len(cs) = 3
       /\ Named(cs[1])
       /\ \E i \in 2..3 : cs[i].kind = "IdTag"
       /\ \E i \in 2..3 : cs[i].kind = "NotTag" /\ Named(cs[i].expr)


(***************************************************************************)
(* Properties of RepOp.full_match (SpecRepOp).                             *)
(***************************************************************************)
ContainsExtractor(n) == \E x \in SubNodes(n) : x.kind = "Extractors"

\* the match the caller holds: the latest the generator yielded
Yielded == produced.out[pos]

Range(s) == {s[i] : i \in 1..Len(s)}

\* one iteration of the body from position c, on a fresh stack of one empty group:
\* where it ends, and in exts[1] what it extracted
BodyRuns(d, n, c) == Range(full_match(d, n.expr, [c EXCEPT !.exts = << <<>> >>]).out)

\* the positions the next iteration may start from
IterationStarts(d, n, b) ==
    {progress(b, b.current, sub) : sub \in Range(descend_by_op(d, b.next, n.trav_op))}

RECURSIVE Iterations(_, _, _, _)
\* k iterations of the body in a row from match: the position reached and, one
\* tuple per iteration, what each extracted
Iterations(d, n, match, k) ==
    IF k = 0 THEN {[at |-> match, tuples |-> <<>>]}
    ELSE UNION {
            UNION {
                {[at |-> b, tuples |-> Append(x.tuples, Group(b.exts[1]))] :
                    b \in BodyRuns(d, n, c)} :
                c \in (IF k = 1 THEN {x.at} ELSE IterationStarts(d, n, x.at))} :
            x \in Iterations(d, n, match, k - 1)}

\* C5: a match that a repetition with extractors yields has the exts of the input
\* match with one element appended to the top group: a tuple of one sub-tuple per
\* iteration, in order, each holding what that iteration extracted (nested, never
\* flattened); the zero-iteration match of * appends the empty tuple.
RepetitionGroups ==
    (pc = "called" /\ pos >= 1 /\ ContainsExtractor(ast.expr)) =>
        LET y == Yielded
            top == Last(y.exts)
            G == Last(top) IN
        /\ Len(y.exts) = Len(inm.exts)
        /\ Front(y.exts) = Front(inm.exts)
        /\ Len(top) = Len(Last(inm.exts)) + 1
        /\ Front(top) = Last(inm.exts)
        /\ G.k = "group"
        /\ \A i \in 1..Len(G.items) : G.items[i].k = "group"
        /\ (ast.rep_op = "*" /\ pos = 1) => (G.items = <<>> /\ y = [inm EXCEPT !.exts = y.exts])
        /\ (ast.rep_op = "+" \/ pos > 1) => Len(G.items) >= 1
        /\ \E x \in Iterations(doc, ast, inm, Len(G.items)) :
              /\ x.tuples = G.items
              /\ x.at.current = y.current /\ x.at.next = y.next

\* a match of two iterations that each extracted, on top of earlier groups
TwoIterationsYielded ==
    /\ pc = "called" /\ pos >= 1 /\ ContainsExtractor(ast.expr)
    /\ Len(inm.exts) = 2
    /\ LET G == Last(Last(Yielded.exts)) IN
       /\ Len(G.items) = 2
       /\ G.items[1].items # <<>> /\ G.items[2].items # <<>>

\* C6: a match that a repetition without extractors yields has the exts of the
\* input match, whatever the body and the number of iterations
RepetitionKeepsExts ==
    (pc = "called" /\ pos >= 1 /\ ~ContainsExtractor(ast.expr)) => Yielded.exts = inm.exts

\* the third match of a repetition whose body holds a repetition and no extractor
NestedRepetitionYielded ==
    /\ pc = "called" /\ pos >= 3 /\ ~ContainsExtractor(ast.expr)
    /\ \E x \in SubNodes(ast.expr) : x.kind = "RepOp"
    /\ Len(inm.exts) = 2

\* no enumeration of these specifications is cut off by MaxPops
NeverCutOff == produced.err # CutOff

(***************************************************************************)
(* Properties of decode_string (SpecDecode).                               *)
(***************************************************************************)
\* the backslash at s[i] is followed by a character that begins none of the escapes:
\* no single-character escape, no octal digit, and not x, u or U with its 2, 4 or 8
\* hexadecimal digits
UnlistedEscapeAt(s, i) ==
    /\ Len(s) > i
    /\ s[i] = "\\"
    /\ LET c == s[i + 1]
           hex(k) == Len(s) >= i + 1 + k /\ \A j \in (i + 2)..(i + 1 + k) : IsHex(s[j]) IN
       /\ c \notin DOMAIN SINGLE_STRING_ESCAPES
       /\ ~IsOct(c)
       /\ ~(c = "x" /\ hex(2))
       /\ ~(c = "u" /\ hex(4))
       /\ ~(c = "U" /\ hex(8))

\* C12: decode_string never fails, and a literal that begins with a backslash and a
\* character that begins none of the listed escapes decodes to a text that begins
\* with the backslash and that character
DecodeKeepsUnlistedEscapes ==
    /\ pc # "decode failed"
    /\ (pc = "decoded" /\ UnlistedEscapeAt(lit, 1)) =>
           (Len(decoded) >= 2 /\ SubSeq(decoded, 1, 2) = <<92, Ord[lit[2]]>>)

\* sanity: the documented round trip '\n\x20\u0020\0\z' and the escapes that decode
DecodeExamples ==
    /\ decode_string(<<"\\", "n", "\\", "x", "7", "F", "\\", "u", "0", "0", "F", "1", "\\", "0", "\\", "z">>)
          = [out |-> <<10, 127, 241, 0, 92, 122>>, err |-> NoErr]
    /\ decode_string(<<"\\", "7", "7", "7", "7">>) = [out |-> <<511, 55>>, err |-> NoErr]
    /\ decode_string(<<"\\", "U", "0", "0", "1", "0", "F", "F", "F", "F">>).out = <<1114111>>

(***************************************************************************)
(* Properties of the modes validation records (SpecValidate).              *)
(***************************************************************************)
\* C13: after a successful compile every node under the Document, a ModeSwitch
\* included, has a mode; the operands of a TravOp and the body of a RepOp have the
\* mode of their parent, and the child_expr of a ModeSwitch has the opposite of the
\* mode the ModeSwitch stands in
EveryNodeHasMode ==
    pc = "compiled" =>
        \A x \in SubNodes(ast) :
            /\ x.mode \in {DEPTH, BREADTH}
            /\ x.kind \in {"TravOp", "RepOp"} =>
                   \A i \in 1..Len(children(x)) : children(x)[i].mode = x.mode
            /\ x.kind = "ModeSwitch" =>
                   /\ x.tag_expr.mode = x.outer_mode
                   /\ x.child_expr.mode = opposite(x.outer_mode)

(***************************************************************************)
(* Properties of * against + (SpecStar).                                   *)
(***************************************************************************)
RECURSIVE ToPlus(_)
\* the expression with + in place of every *
ToPlus(n) ==
    CASE n.kind = "RepOp" -> [n EXCEPT !.expr = ToPlus(n.expr), !.rep_op = "+"]
      [] n.kind \in {"BothTag", "TravOp", "BinOp"} ->
            [n EXCEPT !.left = ToPlus(n.left), !.right = ToPlus(n.right)]
      [] n.kind \in {"NotTag", "Extractors", "Filter", "MonOp", "Document"} ->
            [n EXCEPT !.expr = ToPlus(n.expr)]
      [] n.kind = "ModeSwitch" ->
            [n EXCEPT !.tag_expr = ToPlus(n.tag_expr), !.child_expr = ToPlus(n.child_expr)]
      [] OTHER -> n

HasStar(n) == \E x \in SubNodes(n) : x.kind = "RepOp" /\ x.rep_op = "*"

RECURSIVE Results(_, _, _)
\* what start_match yields from the matches ms, continued from st
Results(d, st, ms) ==
    IF ms = <<>> THEN st.results
    ELSE Results(d, start_match_step(d, st, Head(ms)), Tail(ms))

\* the results of ast with + for *, on the document and the node of this call, up to
\* the end of the enumeration or its fault
PlusResults == Results(doc, [seen |-> {}, results |-> <<>>], full_match(doc, ToPlus(ast), inm).out)

\* the match of no iteration: the input match, with an empty tuple appended to its
\* top group when the body has an extractor
ZeroIteration(n, match) ==
    IF ContainsExtractor(n.expr)
    THEN [match EXCEPT !.exts = Append(Front(match.exts), Append(Last(match.exts), Group(<<>>)))]
    ELSE match

\* a call of RepOp.full_match on a repetition with *: it yields the match of no
\* iteration and then what the same call yields with +, and ends as that call ends
StarIsZeroThenPlus ==
    (pc = "called" /\ ast.kind = "RepOp" /\ ast.rep_op = "*") =>
        LET plus == full_match(doc, [ast EXCEPT !.rep_op = "+"], inm) IN
        /\ produced.out = <<ZeroIteration(ast, inm)>> \o plus.out
        /\ produced.err = plus.err

PlusResultsIncluded ==
    \A i \in 1..Len(PlusResults) : \E j \in 1..Len(results) : ItemsEq(doc, PlusResults[i], results[j])

RepetitionTerminates ==
    pc = "called" => produced.err # CutOff

\* the calls on bodies without extractors do empty their worklists
SkippingWithoutExtractorsTerminates ==
    (pc = "called" /\ ~ContainsExtractor(ast.expr)) => produced.err # CutOff

(***************************************************************************)
(* Properties of ModeSwitch.full_match in BREADTH mode, of End.full_match  *)
(* and of the groups of exts (SpecNodes).                                  *)
(***************************************************************************)
RECURSIVE Concat(_)
Concat(seqs) == IF seqs = <<>> THEN <<>> ELSE Head(seqs) \o Concat(Tail(seqs))

\* full_match was called on a ModeSwitch that stands in BREADTH mode
BreadthSwitchCalled == pc = "called" /\ ast.kind = "ModeSwitch" /\ ast.outer_mode = BREADTH

\* the matches of tag_expr on the input match
TagMatches == full_match(doc, ast.tag_expr, inm).out

\* the matches of child_expr run from the match sm of tag_expr with next set to start
ChildRuns(sm, start) ==
    full_match(doc, ast.child_expr, [sm EXCEPT !.next = start]).out

\* those matches with next set back to the next of sm
Restored(sm, runs) == [i \in 1..Len(runs) |-> [runs[i] EXCEPT !.next = sm.next]]

\* C15: for each match of tag_expr, child_expr is run once for each direct
\* tag child of the tag that tag_expr matched, with next set to that child
SwitchRunsOnChildren ==
    (BreadthSwitchCalled /\ produced.err = NoErr) =>
        produced.out =
            Concat([i \in 1..Len(TagMatches) |->
                LET sm == TagMatches[i]
                    cs == IF sm.current = None THEN <<>> ELSE Children(doc, sm.current) IN
                Concat([j \in 1..Len(cs) |-> Restored(sm, ChildRuns(sm, cs[j]))])])

\* what the code does instead: for each match of tag_expr, child_expr is run exactly
\* once, with next set to the current of that match, the tag that tag_expr matched
SwitchRunsOnMatchedTag ==
    (BreadthSwitchCalled /\ produced.err = NoErr) =>
        produced.out =
            Concat([i \in 1..Len(TagMatches) |->
                Restored(TagMatches[i], ChildRuns(TagMatches[i], TagMatches[i].current))])

\* a ModeSwitch in BREADTH mode has yielded a match on a tag with two child tags
SwitchYieldedOnParentOfTwo ==
    /\ BreadthSwitchCalled /\ pos >= 1
    /\ IsTagNode(ast.tag_expr)
    /\ inm.next # None /\ Len(Children(doc, inm.next)) >= 2

\* C16: a match that a ModeSwitch in BREADTH mode yields has the next of a match of
\* tag_expr (for a tag as tag_expr: the first tag sibling after the matched tag, or
\* none), and the current, exts and side at which child_expr ended, wherever that is
SwitchRestoresNext ==
    (BreadthSwitchCalled /\ pos >= 1) =>
        \E i \in 1..Len(TagMatches) :
            LET sm == TagMatches[i] IN
            /\ Yielded.next = sm.next
            /\ IsTagNode(ast.tag_expr) =>
                  /\ sm.current = inm.next
                  /\ sm.next = (IF \E t \in Tags(doc) : t > sm.current /\ Parent(doc, t) = Parent(doc, sm.current)
                                THEN CHOOSE t \in Tags(doc) :
                                        /\ t > sm.current /\ Parent(doc, t) = Parent(doc, sm.current)
                                        /\ \A u \in Tags(doc) :
                                              (u > sm.current /\ Parent(doc, u) = Parent(doc, sm.current)) => t <= u
                                ELSE None)
            /\ \E start \in {None} \cup Tags(doc) :
                  \E j \in 1..Len(ChildRuns(sm, start)) :
                      LET ssm == ChildRuns(sm, start)[j] IN
                      /\ Yielded.current = ssm.current
                      /\ Yielded.exts = ssm.exts
                      /\ Yielded.trav_side = ssm.trav_side

\* a ModeSwitch in BREADTH mode has yielded a match whose child_expr went below the
\* matched tag and extracted there, and whose next is the sibling of the matched tag
SwitchYieldedBelowWithSibling ==
    /\ BreadthSwitchCalled /\ pos >= 1
    /\ IsTagNode(ast.tag_expr)
    /\ Yielded.next # None
    /\ Yielded.current # inm.next
    /\ Yielded.exts # inm.exts

\* C17: End.full_match yields nothing or the input match, once; on the LEFT side it
\* yields exactly if next is none, or the mode is BREADTH and no tag sibling precedes
\* next, or the mode is DEPTH and the parent of next is not a tag; on the RIGHT side
\* and on no side it yields exactly if next is none
EndYieldsAtTheEdge ==
    (pc = "called" /\ ast.kind = "End") =>
        LET next == inm.next
            edge == IF inm.trav_side = LEFT
                    THEN \/ next = None
                         \/ /\ ast.mode = BREADTH
                            /\ ~\E t \in Tags(doc) : t < next /\ Parent(doc, t) = Parent(doc, next)
                         \/ /\ ast.mode = DEPTH
                            /\ Parent(doc, next) \notin Tags(doc)
                    ELSE next = None IN
        /\ produced.err = NoErr
        /\ produced.out = (IF edge THEN <<inm>> ELSE <<>>)

\* End has yielded on the LEFT side at a first sibling, in BREADTH mode
EndYieldedAtFirstSibling ==
    /\ pc = "called" /\ ast.kind = "End" /\ ast.mode = BREADTH
    /\ inm.trav_side = LEFT /\ inm.next \notin {None, DocRoot}
    /\ pos = 1

\* C19: every match that full_match yields has as many groups in exts as the input
\* match, at least one; the matches that reach start_match have exactly one
GroupsBalanced ==
    (pc \in {"called", "matching", "done", "aborted"}) =>
        /\ \A i \in 1..Len(produced.out) :
              /\ Len(produced.out[i].exts) = Len(inm.exts)
              /\ Len(produced.out[i].exts) >= 1
        /\ pc # "called" => \A i \in 1..Len(produced.out) : Len(produced.out[i].exts) = 1

\* a traversal into a repetition, both with extractors, has yielded on top of an
\* earlier group
GroupsBalancedUnderRepetition ==
    /\ pc = "called" /\ ast.kind = "TravOp"
    /\ \E x \in SubNodes(ast) : x.kind = "RepOp" /\ ContainsExtractor(x.expr)
    /\ Len(inm.exts) = 2
    /\ pos >= 2

(***************************************************************************)
(* Order of the matches of RepOp.full_match (SpecRepOp).                   *)
(***************************************************************************)
\* the numbers of iterations of the body after which the match y can be reached
IterationCounts(y) ==
    IF ContainsExtractor(ast.expr)
    THEN {Len(Last(Last(y.exts)).items)}
    ELSE {k \in 0..(Len(doc.parent) + 1) :
            \E x \in Iterations(doc, ast, inm, k) :
                /\ x.at.current = y.current /\ x.at.next = y.next
                /\ x.at.trav_side = y.trav_side}

Least(S) == CHOOSE k \in S : \A j \in S : k <= j

\* C18: RepOp.full_match yields in breadth-first order: the match of no iteration of
\* * first, then no match of fewer iterations after a match of more; and no Match
\* value twice
RepetitionBreadthFirst ==
    (pc = "called" /\ ast.kind = "RepOp" /\ pos >= 1) =>
        LET now == IterationCounts(Yielded)
            before == IF pos >= 2 THEN IterationCounts(produced.out[pos - 1]) ELSE {0} IN
        /\ now # {} /\ before # {}
        /\ (ast.rep_op = "*" /\ pos = 1) =>
               (Least(now) = 0 /\ Yielded.exts = ZeroIteration(ast, inm).exts)
        /\ (ast.rep_op = "+" \/ pos > 1) => Least(now) >= 1
        /\ Least(before) <= Least(now)
        /\ \A i \in 1..(pos - 1) : ~MatchEq(doc, produced.out[i], Yielded)

\* a repetition with extractors has yielded a match of two iterations after two
\* matches of one
TwoLevelsYielded ==
    /\ pc = "called" /\ ast.kind = "RepOp" /\ pos >= 3
    /\ ContainsExtractor(ast.expr)
    /\ IterationCounts(produced.out[pos - 2]) = {1}
    /\ IterationCounts(produced.out[pos - 1]) = {1}
    /\ IterationCounts(Yielded) = {2}

(***************************************************************************)
(* The assertions of Extractors and Filter (Spec).                         *)
(***************************************************************************)
\* C20: when matching is started on a document root, no match reaches an Extractors
\* or a Filter node with current none: the enumeration does not end in either of
\* the two assertions, whatever the expression
CurrentNeverNone ==
    (Started /\ inm.next # None) => produced.err.type # "AssertionError"

\* the matching of an expression that extracts behind a skipped ? or behind $ at the
\* root is over, having extracted the root
ExtractedBehindSkip ==
    /\ pc = "done" /\ inm.next = DocRoot
    /\ \E x \in SubNodes(ast) :
          /\ x.kind = "Extractors"
          /\ x.expr.kind \in {"MonOp", "End", "RepOp"}
    /\ \E i \in 1..Len(results) : \E j \in 1..Len(results[i]) :
          results[i][j].k = "leaf" /\ results[i][j].node = DocRoot

====
